---- MODULE Spec2Model ----
(***************************************************************************)
(* Model of create_overlay.py (rent price overlay creation).               *)
(*                                                                         *)
(* numpy arrays are records [shape, a]: shape is the tuple of dimension    *)
(* sizes and a the nested sequence of the elements.  Rents and coordinates *)
(* are integers; a median of integers is a half-integer, so medians and    *)
(* distances are carried with a stated scale and a quotient is a pair      *)
(* [num, den].  nan is a value of its own.                                 *)
(***************************************************************************)
EXTENDS Integers, Sequences, FiniteSets, TLC

VARIABLES
    pc,             \* position of the run / of the call under study
    rents,          \* what json.load returns for the rents file
    points,         \* the points array (longitude, latitude)
    values,         \* the values array
    max_rel_dist,   \* sanitize_data's threshold
    ret,            \* what the call under study returned ("none" before)
    error,          \* the exception that ended the call, "none" otherwise
    w_points,       \* projected points
    img,            \* the rendered heatmap
    overlay_file,   \* state of the PNG output file
    colormap_file,  \* state of the JSON colormap file
    entries         \* export_colormap's entries argument

vars == <<pc, rents, points, values, max_rel_dist, ret, error, w_points, img,
          overlay_file, colormap_file, entries>>

----------------------------------------------------------------------------
(* Bounds of the model *)

MaxLen == 3         \* rows of a table
MaxVal == 7         \* largest rent value
MaxEntries == 20    \* largest entries argument explored

----------------------------------------------------------------------------
(* numpy arrays *)

None == "none"

\* a file: absent, stale (left by an earlier run), truncated (opened for
\* writing, nothing written yet), partial (a write failed), written
File(state, content) == [state |-> state, content |-> content]
NoFile == File("absent", <<>>)

\* a float64 array; an array built from a list holding a string has dtype "str"
Array(shape, a) == [shape |-> shape, a |-> a, dtype |-> "float64"]

\* np.array of a list of N rows of 2 columns / of a flat list
Matrix(rows) == Array(<<Len(rows), 2>>, rows)
Vector(xs) == Array(<<Len(xs)>>, xs)

Abs(x) == IF x < 0 THEN -x ELSE x

RECURSIVE Insert(_, _)
Insert(x, s) ==
    IF s = <<>> THEN <<x>>
    ELSE IF x <= Head(s) THEN <<x>> \o s
    ELSE <<Head(s)>> \o Insert(x, Tail(s))

RECURSIVE Sorted(_)
Sorted(s) == IF s = <<>> THEN <<>> ELSE Insert(Head(s), Sorted(Tail(s)))

NaN == [nan |-> TRUE, x |-> 0]
Num(x) == [nan |-> FALSE, x |-> x]

\* np.median of a 1-d sequence, times 2 (the mean of the two middle elements
\* of an even-length sequence is a half-integer); nan for an empty sequence.
Median2(s) ==
    LET n == Len(s)
        t == Sorted(s)
    IN  IF n = 0 THEN NaN
        ELSE IF n % 2 = 1 THEN Num(2 * t[(n + 1) \div 2])
        ELSE Num(t[n \div 2] + t[n \div 2 + 1])

Truthy_nanFalse(f) == ~f.nan /\ f.x # 0

\* Python truth value of a float: nan is true, 0.0 is false
Truthy(f) == f.nan \/ f.x # 0

\* a[keep] for a boolean keep: a 1-d mask selects along the first axis, a
\* scalar boolean is a 0-d index that adds an axis of size 1 (True) or 0 (False)
RECURSIVE Select(_, _)
Select(a, mask) ==
    IF a = <<>> THEN <<>>
    ELSE (IF Head(mask) THEN <<Head(a)>> ELSE <<>>) \o Select(Tail(a), Tail(mask))

BoolIndex(arr, keep) ==
    IF keep.scalar
    THEN IF keep.b THEN [arr EXCEPT !.shape = <<1>> \o arr.shape, !.a = <<arr.a>>]
         ELSE [arr EXCEPT !.shape = <<0>> \o arr.shape, !.a = <<>>]
    ELSE LET sel == Select(arr.a, keep.mask)
         IN  [arr EXCEPT !.shape = <<Len(sel)>> \o Tail(arr.shape), !.a = sel]

----------------------------------------------------------------------------
(* sanitize_data *)

\* abs_dist = np.abs(values - np.median(values)), times 2
abs_dist(vals) ==
    LET m == Median2(vals.a)
    IN  [i \in 1..Len(vals.a) |-> Abs(2 * vals.a[i] - m.x)]

\* med_dist = np.median(abs_dist), times 4
med_dist(vals) == Median2(abs_dist(vals))

\* rel_dist = abs_dist / med_dist if med_dist else 0
\* (abs_dist/2) / (med_dist/4) = 2 * abs_dist / med_dist
rel_dist(vals) ==
    LET ad == abs_dist(vals)
        md == med_dist(vals)
    IN  IF Truthy(md)
        THEN [scalar |-> FALSE,
              r |-> [i \in 1..Len(ad) |-> [num |-> 2 * ad[i], den |-> md.x]]]
        ELSE [scalar |-> TRUE, r |-> 0]

Less_orEqual(q, t) == q.num <= t * q.den

\* q < t for a quotient q with a positive denominator
Less(q, t) == q.num < t * q.den

\* keep = rel_dist < max_rel_dist
keep(vals, t) ==
    LET rd == rel_dist(vals)
    IN  IF rd.scalar
        THEN [scalar |-> TRUE, b |-> rd.r < t, mask |-> <<>>]
        ELSE [scalar |-> FALSE, b |-> FALSE,
              mask |-> [i \in 1..Len(rd.r) |-> Less(rd.r[i], t)]]

\* return points[keep, :], values[keep]
sanitize_data(pts, vals, t) ==
    [points |-> BoolIndex(pts, keep(vals, t)),
     values |-> BoolIndex(vals, keep(vals, t))]

----------------------------------------------------------------------------
(* sanitize_data called on its own: the inputs are drawn from bounded sets *)

\* (longitude, latitude) pairs inside HEATMAP_AREA, in hundredths of a degree
PointSet == {<<840, 4900>>, <<841, 4900>>}

\* the thresholds explored: the default 6 and smaller ones
Thresholds == {0, 1, 2, 6}

\* the end-to-end example of the documentation
ExampleValues == <<10, 12, 1000>>

SeqsOfLen(S, n) == [1..n -> S]

\* n rows of points: all different, or all the same
PointRows(n) == {[i \in 1..n |-> <<840 + i - 1, 4900>>],
                 [i \in 1..n |-> <<840, 4900>>]}

Idle ==
    /\ rents = None /\ w_points = None /\ img = None
    /\ overlay_file = "absent" /\ colormap_file = NoFile
    /\ entries = 0 /\ error = None /\ ret = None

InitSanitize ==
    /\ pc = "sanitize_data"
    /\ \E n \in 0..MaxLen :
         /\ points \in {Matrix(p) : p \in PointRows(n)}
         /\ values \in {Vector(v) : v \in SeqsOfLen(0..MaxVal, n)
                                      \cup (IF n = 3 THEN {ExampleValues} ELSE {})}
    /\ max_rel_dist \in Thresholds
    /\ Idle

CallSanitize ==
    /\ pc = "sanitize_data"
    /\ ret' = sanitize_data(points, values, max_rel_dist)
    /\ pc' = "returned"
    /\ UNCHANGED <<rents, points, values, max_rel_dist, error, w_points, img,
                   overlay_file, colormap_file, entries>>

NextSanitize == CallSanitize

SpecSanitize == InitSanitize /\ [][NextSanitize]_vars

----------------------------------------------------------------------------
(* load_data *)

\* JSON scalars: a number or a (non-numeric) string
JNum(x) == [t |-> "num", v |-> x]
JStr == [t |-> "str", v |-> 0]

\* the rent values of the documented example
RentValues == {10, 12, 1000}

\* rows [latitude, longitude, value] of the upstream export format
GoodRows == {<<JNum(p[2]), JNum(p[1]), JNum(v)>> : p \in PointSet, v \in RentValues}

\* rows that are not 3 numeric fields: too few, too many, a string field
BadRows == {<<JNum(4900), JNum(840)>>,
            <<JNum(4900), JNum(840), JNum(10), JNum(1)>>,
            <<JNum(4900), JNum(840), JStr>>}

JsonRows == GoodRows \cup BadRows

JsonFiles == UNION {SeqsOfLen(JsonRows, n) : n \in 0..MaxLen}

IsNumericRow(row) == Len(row) = 3 /\ \A k \in 1..3 : row[k].t = "num"
WellFormed(json) == \A i \in 1..Len(json) : IsNumericRow(json[i])

\* np.array(json.load(f)): rows of one length give a 2-d array, whose dtype
\* is a string type as soon as one field is a string (numbers are then
\* converted to their text); no rows give an empty 1-d array; rows of
\* different lengths give no 2-d array ("ragged")
np_array(json) ==
    LET n == Len(json)
        isStr == \E i \in 1..n : \E k \in 1..Len(json[i]) : json[i][k].t = "str"
        elem(x) == IF isStr THEN [text |-> x] ELSE x.v
    IN  IF n = 0 THEN [ragged |-> FALSE, arr |-> Array(<<0>>, <<>>)]
        ELSE IF \A i \in 1..n : Len(json[i]) = Len(json[1])
        THEN [ragged |-> FALSE,
              arr |-> [shape |-> <<n, Len(json[1])>>,
                       a |-> [i \in 1..n |-> [k \in 1..Len(json[i]) |-> elem(json[i][k])]],
                       dtype |-> IF isStr THEN "str" ELSE "float64"]]
        ELSE [ragged |-> TRUE, arr |-> Array(<<0>>, <<>>)]

Raise(e) == [raised |-> TRUE, error |-> e,
             points |-> Array(<<0>>, <<>>), values |-> Array(<<0>>, <<>>)]
Return(p, v) == [raised |-> FALSE, error |-> None, points |-> p, values |-> v]

\* return data[:, (1, 0)], data[:, 2]
\* the outcomes of load_data on a parsed file: np.array refuses ragged rows
\* (ValueError) or builds a 1-d array of lists, which data[:, ...] then
\* refuses (IndexError), depending on the numpy release
load_data(json) ==
    LET data == np_array(json) IN
    IF data.ragged THEN {Raise("ValueError"), Raise("IndexError")}
    ELSE IF Len(data.arr.shape) < 2 THEN {Raise("IndexError")}
    ELSE IF data.arr.shape[2] < 3 THEN {Raise("IndexError")}
    ELSE {Return([shape |-> <<data.arr.shape[1], 2>>,
                  a |-> [i \in 1..Len(data.arr.a) |->
                            <<data.arr.a[i][2], data.arr.a[i][1]>>],
                  dtype |-> data.arr.dtype],
                 [shape |-> <<data.arr.shape[1]>>,
                  a |-> [i \in 1..Len(data.arr.a) |-> data.arr.a[i][3]],
                  dtype |-> data.arr.dtype])}

InitLoad ==
    /\ pc = "load_data"
    /\ rents \in JsonFiles
    /\ points = None /\ values = None /\ max_rel_dist = 6
    /\ w_points = None /\ img = None
    /\ overlay_file = "absent" /\ colormap_file = NoFile
    /\ entries = 0 /\ error = None /\ ret = None

CallLoad ==
    /\ pc = "load_data"
    /\ \E r \in load_data(rents) :
         /\ ret' = r
         /\ error' = r.error
         /\ pc' = IF r.raised THEN "raised" ELSE "returned"
    /\ UNCHANGED <<rents, points, values, max_rel_dist, w_points, img,
                   overlay_file, colormap_file, entries>>

NextLoad == CallLoad

SpecLoad == InitLoad /\ [][NextLoad]_vars

\* C5: for N rows [latitude_i, longitude_i, value_i], load_data returns the
\* N x 2 points matrix of rows (longitude_i, latitude_i) and the N-vector of
\* the value_i, N = 0 included.
C5_LoadSwapsColumns ==
    (pc \in {"returned", "raised"} /\ WellFormed(rents)) =>
        /\ pc = "returned"
        /\ ret.points = Matrix([i \in 1..Len(rents) |-> <<rents[i][2].v, rents[i][1].v>>])
        /\ ret.values = Vector([i \in 1..Len(rents) |-> rents[i][3].v])

\* C6: load_data fails (with a FormatError; any exception is counted here)
\* and returns no table whenever some row is not exactly 3 numeric fields.
C6_MalformedRowFails ==
    (pc \in {"returned", "raised"} /\ ~WellFormed(rents)) => pc = "raised"

----------------------------------------------------------------------------
(* lonlat_to_world *)

\* a world coordinate is kept as the operations applied to the degrees
Rad(c) == [deg |-> c, plus_pi |-> FALSE, mercator |-> FALSE]
AddPi(x) == [x EXCEPT !.plus_pi = TRUE]
Mercator(x) == [x EXCEPT !.mercator = TRUE]

Apply(op, x) ==
    CASE op = "rad" -> Rad(x)
      [] op = "add_pi" -> AddPi(x)
      [] op = "mercator" -> Mercator(x)

\* op on the element w[i, j], a scalar of a 2-d array, a row of a 3-d array
OnElement(op, x, ndim) ==
    IF ndim = 2 THEN Apply(op, x) ELSE [k \in 1..Len(x) |-> Apply(op, x[k])]

\* w = np.pi * points / 180; w[:, 0] += np.pi;
\* w[:, 1] = np.pi - np.log(np.tan(np.pi / 4 + w[:, 1] / 2)); return w
lonlat_to_world(pts) ==
    LET nd == Len(pts.shape)
        w0 == [i \in 1..Len(pts.a) |->
                 [j \in 1..Len(pts.a[i]) |-> OnElement("rad", pts.a[i][j], nd)]]
        w1 == [i \in 1..Len(w0) |->
                 [j \in 1..Len(w0[i]) |->
                    IF j = 1 THEN OnElement("add_pi", w0[i][j], nd) ELSE w0[i][j]]]
        w2 == [i \in 1..Len(w1) |->
                 [j \in 1..Len(w1[i]) |->
                    IF j = 2 THEN OnElement("mercator", w1[i][j], nd) ELSE w1[i][j]]]
    IN  IF pts.shape[2] < 2
        THEN [raised |-> TRUE, error |-> "IndexError", w |-> pts]
        ELSE [raised |-> FALSE, error |-> None, w |-> [pts EXCEPT !.a = w2]]

----------------------------------------------------------------------------
(* export_colormap *)

COLORMAP_EXPORT_ENTRIES == 20

\* a sample position num/den in [0, 1]
Frac(n, d) == [num |-> n, den |-> d]

linspace01_noEndpoint(num) == [k \in 1..num |-> Frac(k - 1, num)]

\* np.linspace(0, 1, entries): entries positions k / (entries - 1), the
\* last one 1; the single position 0 for entries = 1
linspace01(num) ==
    [k \in 1..num |-> IF num = 1 THEN Frac(0, 1) ELSE Frac(k - 1, num - 1)]

\* HEATMAP_COLORMAP = matplotlib.cm.summer: position x looks up entry
\* min(floor(256 x), 255) of a 256-entry table running linearly from
\* (0, 0.5, 0.4, 1) to (1, 1, 0.4, 1); RGBA components in 1/510
summer(x) ==
    LET f == (256 * x.num) \div x.den
        i == IF f > 255 THEN 255 ELSE f
    IN  <<2 * i, 255 + i, 204, 510>>

\* what export_colormap may do to the file: open fails (the file is left as
\* it was), the write fails after the file was opened (truncated or partly
\* written), or the list is written
export_colormap(file, num) ==
    {[raised |-> TRUE, error |-> "IOError", file |-> file],
     [raised |-> TRUE, error |-> "IOError", file |-> File("truncated", <<>>)]}
    \cup (IF num > 1
          THEN {[raised |-> TRUE, error |-> "IOError",
                 file |-> File("partial", <<summer(linspace01(num)[1])>>)]}
          ELSE {})
    \cup {[raised |-> FALSE, error |-> None,
           file |-> File("written", [k \in 1..num |-> summer(linspace01(num)[k])])]}

StaleFile == File("stale", <<summer(Frac(0, 1))>>)

InitExport ==
    /\ pc = "export_colormap"
    /\ entries \in 0..MaxEntries
    /\ colormap_file \in {NoFile, StaleFile}
    /\ rents = None /\ points = None /\ values = None /\ max_rel_dist = 6
    /\ w_points = None /\ img = None /\ overlay_file = "absent"
    /\ error = None /\ ret = None

CallExport ==
    /\ pc = "export_colormap"
    /\ \E r \in export_colormap(colormap_file, entries) :
         /\ colormap_file' = r.file
         /\ error' = r.error
         /\ pc' = IF r.raised THEN "raised" ELSE "returned"
    /\ ret' = linspace01(entries)
    /\ UNCHANGED <<rents, points, values, max_rel_dist, w_points, img,
                   overlay_file, entries>>

NextExport == CallExport

SpecExport == InitExport /\ [][NextExport]_vars

----------------------------------------------------------------------------
(* the script: load -> sanitize -> project -> render -> save -> export *)

Init ==
    /\ pc = "load_data"
    /\ rents \in JsonFiles
    /\ points = None /\ values = None /\ max_rel_dist = 6
    /\ w_points = None /\ img = None
    /\ overlay_file = "absent" /\ colormap_file = NoFile
    /\ entries = COLORMAP_EXPORT_ENTRIES
    /\ error = None /\ ret = None

Fail(e) == pc' = "failed" /\ error' = e

\* points, values = load_data(args.rents)
LoadData ==
    /\ pc = "load_data"
    /\ \/ /\ Fail("IOError")              \* the file cannot be opened
          /\ UNCHANGED <<points, values>>
       \/ \E r \in load_data(rents) :
            IF r.raised
            THEN Fail(r.error) /\ UNCHANGED <<points, values>>
            ELSE /\ points' = r.points
                 /\ values' = r.values
                 /\ pc' = "sanitize_data"
                 /\ UNCHANGED error
    /\ UNCHANGED <<rents, max_rel_dist, ret, w_points, img, overlay_file,
                   colormap_file, entries>>

\* points, values = sanitize_data(points, values)
SanitizeData ==
    /\ pc = "sanitize_data"
    /\ IF values.dtype = "str"
       THEN Fail("TypeError") /\ UNCHANGED <<points, values>>
       ELSE /\ points' = sanitize_data(points, values, max_rel_dist).points
            /\ values' = sanitize_data(points, values, max_rel_dist).values
            /\ pc' = "lonlat_to_world"
            /\ UNCHANGED error
    /\ UNCHANGED <<rents, max_rel_dist, ret, w_points, img, overlay_file,
                   colormap_file, entries>>

\* w_points = lonlat_to_world(points)
\* w_area = lonlat_to_world(np.array(HEATMAP_AREA))
Project ==
    /\ pc = "lonlat_to_world"
    /\ LET r == lonlat_to_world(points) IN
         IF r.raised
         THEN Fail(r.error) /\ UNCHANGED w_points
         ELSE w_points' = r.w /\ pc' = "create_heatmap" /\ UNCHANGED error
    /\ UNCHANGED <<rents, points, values, max_rel_dist, ret, img, overlay_file,
                   colormap_file, entries>>

\* img = create_heatmap(w_points, values, w_area): the renderer is an
\* external library, which returns an image or raises
CreateHeatmap ==
    /\ pc = "create_heatmap"
    /\ \/ Fail("RenderError") /\ UNCHANGED img
       \/ img' = "image" /\ pc' = "save" /\ UNCHANGED error
    /\ UNCHANGED <<rents, points, values, max_rel_dist, ret, w_points,
                   overlay_file, colormap_file, entries>>

\* img.save(args.overlay)
SaveImage ==
    /\ pc = "save"
    /\ \/ Fail("IOError") /\ overlay_file' \in {"absent", "partial"}
       \/ overlay_file' = "written" /\ pc' = "export_colormap" /\ UNCHANGED error
    /\ UNCHANGED <<rents, points, values, max_rel_dist, ret, w_points, img,
                   colormap_file, entries>>

\* export_colormap(HEATMAP_COLORMAP, args.colormap, COLORMAP_EXPORT_ENTRIES)
ExportColormap ==
    /\ pc = "export_colormap"
    /\ \E r \in export_colormap(colormap_file, entries) :
         /\ colormap_file' = r.file
         /\ IF r.raised THEN Fail(r.error) ELSE pc' = "done" /\ UNCHANGED error
    /\ UNCHANGED <<rents, points, values, max_rel_dist, ret, w_points, img,
                   overlay_file, entries>>

Next ==
    \/ LoadData
    \/ SanitizeData
    \/ Project
    \/ CreateHeatmap
    \/ SaveImage
    \/ ExportColormap

Spec == Init /\ [][Next]_vars

\* C7: in every terminal state of a run either both output files (image and
\* legend) have been written or neither has.
C7_BothOrNeither ==
    pc \in {"done", "failed"} =>
        (overlay_file = "written" <=> colormap_file.state = "written")

\* C9: export_colormap(cm, entries), entries >= 1, writes exactly entries RGBA
\* 4-tuples, the k-th (from 0) being cm at position k / (entries - 1): the
\* first cm(0), the last cm(1), positions ascending.
C9_LinearSamples ==
    (pc = "returned" /\ entries >= 1) =>
        LET out == colormap_file.content IN
        /\ colormap_file.state = "written"
        /\ Len(out) = entries
        /\ \A k \in 1..entries : Len(out[k]) = 4
        /\ out[1] = summer(Frac(0, 1))
        /\ entries >= 2 => out[entries] = summer(Frac(1, 1))
        /\ entries >= 2 =>
             \A k \in 0..(entries - 1) : out[k + 1] = summer(Frac(k, entries - 1))
        /\ \A k \in 1..(entries - 1) :
             ret[k].num * ret[k + 1].den < ret[k + 1].num * ret[k].den

C9_Witness ==
    /\ pc = "returned" /\ entries >= 3
    /\ Len(colormap_file.content) = entries
    /\ colormap_file.content[1] # colormap_file.content[entries]

----------------------------------------------------------------------------
(* Claims about sanitize_data *)

Range(s) == {s[i] : i \in 1..Len(s)}

\* the element of rank k of s (1 = smallest), by counting
Rank(s, k) ==
    CHOOSE x \in Range(s) :
        /\ Cardinality({i \in 1..Len(s) : s[i] < x}) < k
        /\ Cardinality({i \in 1..Len(s) : s[i] <= x}) >= k

\* twice the median of a non-empty s: the middle element, or the sum of the
\* two middle elements
TwiceMedian(s) == Rank(s, (Len(s) + 1) \div 2) + Rank(s, Len(s) \div 2 + 1)

N == Len(values.a)

\* 2 * |value_i - m|
Dev2(i) == Abs(2 * values.a[i] - TwiceMedian(values.a))

\* 4 * d, d the median of the absolute deviations
Mad4 == TwiceMedian([i \in 1..N |-> Dev2(i)])

\* r_i < t, r_i = |value_i - m| / d, for d # 0
BelowThreshold(i, t) == 2 * Dev2(i) < t * Mad4
AtThreshold(i, t) == 2 * Dev2(i) = t * Mad4

\* the rows of a at the indices of K, in increasing index order
RECURSIVE RowsAt(_, _, _)
RowsAt(a, K, i) ==
    IF i > Len(a) THEN <<>>
    ELSE (IF i \in K THEN <<a[i]>> ELSE <<>>) \o RowsAt(a, K, i + 1)

Kept == {i \in 1..N : BelowThreshold(i, max_rel_dist)}

\* C1: when the median absolute deviation d is not 0, sanitize_data keeps row
\* i if and only if |value_i - m| / d < threshold (strictly); the documented
\* example {10, 12, 1000} with threshold 6 keeps the first two rows.
C1_KeepIffBelowThreshold ==
    (pc = "returned" /\ N > 0 /\ Mad4 # 0) =>
        /\ ret.points = Matrix(RowsAt(points.a, Kept, 1))
        /\ ret.values = Vector(RowsAt(values.a, Kept, 1))
        /\ (values.a = ExampleValues /\ max_rel_dist = 6) =>
              /\ ret.values.a = <<10, 12>>
              /\ ret.points.a = <<points.a[1], points.a[2]>>

\* a row exactly at the threshold 6 was discarded and another row was kept
C1_Witness ==
    /\ pc = "returned" /\ N > 0 /\ Mad4 # 0 /\ max_rel_dist = 6
    /\ \E i \in 1..N : AtThreshold(i, 6)
    /\ Len(ret.values.a) \in 1..(N - 1)

\* C2: when the median absolute deviation is 0 (all values identical) every
\* row is kept: the result is the input N x 2 matrix and N-vector.
C2_ZeroMadKeepsAll ==
    (pc = "returned" /\ N > 0 /\ Mad4 = 0 /\ max_rel_dist > 0) =>
        /\ ret.points = points
        /\ ret.values = values

\* C3: the output is an index-aligned subsequence of the input: for some set
\* K of row indices, the output points and values are the input rows at K, in
\* input order.
C3_AlignedSubsequence ==
    pc = "returned" =>
        \E K \in SUBSET (1..N) :
            /\ ret.points = Matrix(RowsAt(points.a, K, 1))
            /\ ret.values = Vector(RowsAt(values.a, K, 1))

\* C8: an empty table gives an empty points matrix and an empty values vector,
\* and no error.
C8_EmptyInEmptyOut ==
    (pc = "returned" /\ N = 0) =>
        /\ ret.points = Matrix(<<>>)
        /\ ret.values = Vector(<<>>)
        /\ error = None

C8_Witness == pc = "returned" /\ N = 0 /\ ret.points.shape = <<0, 2>>

\* C10: for a non-empty input of N rows and a threshold > 1 the output is a
\* table of at least ceil(N/2) rows.
C10_KeepsAtLeastHalf ==
    (pc = "returned" /\ N > 0 /\ max_rel_dist > 1) =>
        \E k \in ((N + 1) \div 2)..N :
            /\ ret.points.shape = <<k, 2>>
            /\ ret.values.shape = <<k>>

====
